---- MODULE Spec2Model ----
(***************************************************************************)
(* Command protocol layer of haikubot-rs (src/src/commands.rs): parsing of *)
(* an application-command interaction into a typed command, dispatch of    *)
(* the parsed command to its handler, the handlers' responses, and the     *)
(* reaction-driven navigation loop of the search handler (lines 464-518 of *)
(* commands.rs, which the source carries commented out).                   *)
(***************************************************************************)
EXTENDS Integers, Sequences, FiniteSets, TLC

(* ------------------------------ bounds -------------------------------- *)

\* Longest option list of a raw interaction drawn for the parser.
MaxOptions == 2
\* Most results the store returns for one search.
MaxResults == 3
\* Reactions users add in one behaviour, over all messages.
MaxArrivals == 3
\* The clock stops here.
MaxTime == 300

(* --------------------------- program constants ------------------------ *)

\* Duration::from_secs(300) of the navigation loop's await_reaction.
TTL == 300

UPTIME_COMMAND_NAME == "uptime"
COUNT_COMMAND_NAME == "count"
GET_HAIKU_COMMAND_NAME == "gethaiku"
RANDOM_HAIKU_COMMAND_NAME == "randomhaiku"
SEARCH_COMMAND_NAME == "search"

\* The closed set of names Commands::parse matches on.
KnownCommands ==
  { UPTIME_COMMAND_NAME, COUNT_COMMAND_NAME, GET_HAIKU_COMMAND_NAME,
    RANDOM_HAIKU_COMMAND_NAME, SEARCH_COMMAND_NAME }

\* Names an interaction can carry: the known ones and one unregistered name.
CommandNames == KnownCommands \cup { "bogus" }

(* ------------------------ raw interaction values ---------------------- *)

\* ApplicationCommandInteractionDataOptionValue, and Option::None for an
\* option whose `resolved` field is absent.
NoneValue == [kind |-> "None"]
StringValue(s) == [kind |-> "String", s |-> s]
IntegerValue(n) == [kind |-> "Integer", n |-> n]
BooleanValue(b) == [kind |-> "Boolean", b |-> b]

\* Strings are sequences of characters: the empty string, a blank, a word.
Strings == { <<>>, <<" ">>, <<"m">> }

ResolvedValues ==
  { NoneValue, IntegerValue(7), BooleanValue(TRUE) }
    \cup { StringValue(s) : s \in Strings }

OptionNames == { "phrase", "id", "keywords", "extra" }

\* ApplicationCommandInteractionDataOption: the two fields parse reads.
DataOptions == [name : OptionNames, resolved : ResolvedValues]

OptionLists(n) == UNION { [1..k -> DataOptions] : k \in 0..n }

\* ApplicationCommandInteraction: data.name, data.options, guild_id.
RawInteractions(n) ==
  [name : CommandNames, options : OptionLists(n), guild : BOOLEAN]

(* ------------------------------ parsing ------------------------------- *)

Ok(v) == [ok |-> TRUE, val |-> v]
Err(e) == [ok |-> FALSE, err |-> e]

\* options.iter().rfind(...): the last option with that name.
FindOption_Last(options, name) ==
  LET hits == { k \in 1..Len(options) : options[k].name = name }
  IN  IF hits = {} THEN 0 ELSE CHOOSE k \in hits : \A j \in hits : k >= j

\* options.iter().find(|option| option.name == name): index of the first
\* option with that name, 0 when there is none.
FindOption(options, name) ==
  LET hits == { k \in 1..Len(options) : options[k].name = name }
  IN  IF hits = {} THEN 0 ELSE CHOOSE k \in hits : \A j \in hits : k <= j

\* The shared shape of CountCommand::parse, GetHaikuCommand::parse and
\* SearchCommand::parse: find the option, take its resolved value.
ResolvedOption(options, name) ==
  LET k == FindOption(options, name)
  IN  IF k = 0 THEN Err("MissingOption")
      ELSE IF options[k].resolved = NoneValue THEN Err("MissingOption")
      ELSE Ok(options[k].resolved)

UptimeCommand_parse(command) == Ok([variant |-> "Uptime"])

\* CountCommand::parse testing for the Integer variant, as gethaiku does.
CountCommand_parse_Integer(command) ==
  LET phrase == ResolvedOption(command.options, "phrase")
  IN  IF ~phrase.ok THEN phrase
      ELSE IF phrase.val.kind = "Integer"
           THEN Ok([variant |-> "Count", phrase |-> <<>>])
           ELSE Err("InvalidOption")

CountCommand_parse(command) ==
  LET phrase == ResolvedOption(command.options, "phrase")
  IN  IF ~phrase.ok THEN phrase
      ELSE IF phrase.val.kind = "String"
           THEN Ok([variant |-> "Count", phrase |-> phrase.val.s])
           ELSE Err("InvalidOption")

GetHaikuCommand_parse(command) ==
  LET id == ResolvedOption(command.options, "id")
  IN  IF ~id.ok THEN id
      ELSE IF id.val.kind = "Integer"
           THEN Ok([variant |-> "GetHaiku", id |-> id.val.n])
           ELSE Err("InvalidOption")

RandomHaikuCommand_parse(command) == Ok([variant |-> "RandomHaiku"])

\* SearchCommand::parse reporting a wrongly typed value as MissingOption.
SearchCommand_parse_Missing(command) ==
  LET keywords == ResolvedOption(command.options, "keywords")
  IN  IF ~keywords.ok THEN keywords
      ELSE IF keywords.val.kind = "String"
           THEN Ok([variant |-> "Search", keywords |-> keywords.val.s])
           ELSE Err("MissingOption")

SearchCommand_parse(command) ==
  LET keywords == ResolvedOption(command.options, "keywords")
  IN  IF ~keywords.ok THEN keywords
      ELSE IF keywords.val.kind = "String"
           THEN Ok([variant |-> "Search", keywords |-> keywords.val.s])
           ELSE Err("InvalidOption")

Commands_parse(command) ==
  CASE command.name = UPTIME_COMMAND_NAME -> UptimeCommand_parse(command)
    [] command.name = COUNT_COMMAND_NAME -> CountCommand_parse(command)
    [] command.name = GET_HAIKU_COMMAND_NAME -> GetHaikuCommand_parse(command)
    [] command.name = RANDOM_HAIKU_COMMAND_NAME ->
         RandomHaikuCommand_parse(command)
    [] command.name = SEARCH_COMMAND_NAME -> SearchCommand_parse(command)
    [] OTHER -> Err("UnknownCommand")

(* ------------------------------- state -------------------------------- *)

\* The interactions the platform delivers; each is dispatched on its own
\* task, and its identifier is also the identifier of its response message.
Interactions == { 1, 2 }

\* The clock advances in steps of this length.
Durations == { 150 }

\* Reactions a user can add to a message.
Emoji == { "next", "prev", "other" }

VARIABLES
  raw,        \* parser harness: the interaction handed to Commands::parse
  result,     \* parser harness: what Commands::parse returned, or NotParsed
  registered, \* the guild's application commands, as the platform holds them
  regCalls,   \* calls of register_commands the platform accepted
  quiet,      \* users have stopped reacting
  status,     \* per interaction: position of its task
  cmd,        \* per interaction: what Commands::parse returned
  guild,      \* per interaction: command.guild_id is Some
  ran,        \* per interaction: the arms of Commands::invoke taken, in order
  sent,       \* per interaction: create_interaction_response calls, in order
  queries,    \* per interaction: calls of the haiku store, in order
  display,    \* per interaction: what its response message shows now
  session,    \* per interaction: state of the navigation loop on its message
  items,      \* per session: search_results
  index,      \* per session: index
  newIndex,   \* per session: new_index of the reaction being handled
  pc,         \* per session: "await" in await_reaction, "busy" in the edit
  queue,      \* per session: reactions collected and not yet received
  wait,       \* per session: time spent in the current await_reaction
  createdAt,  \* per session: clock value when the loop was entered
  ideal,      \* per session: cursor after all collected reactions, in order
  arrivals,   \* reactions that joined a collector so far
  dropped,    \* reactions that reached no collector so far
  now         \* the clock

vars ==
  << raw, result, registered, regCalls, quiet, status, cmd, guild, ran, sent,
     queries, display, session, items, index, newIndex, pc, queue, wait,
     createdAt, ideal, arrivals, dropped, now >>

\* What the dispatcher and the navigation loop never touch.
harnessVars == << raw, result, registered, regCalls, quiet >>
pagerVars ==
  << session, items, index, newIndex, pc, queue, wait, createdAt, ideal >>

NotParsed == [ok |-> FALSE, err |-> "NotParsed"]
NoRaw == [name |-> "bogus", options |-> <<>>, guild |-> FALSE]

\* A message: its text, the haiku its embed shows (0: no embed), the
\* "k/N" of a search result (0/0 otherwise), and whether it has the
\* Previous/Next action row.
Message(text, embed, pos, total, buttons) ==
  [text |-> text, embed |-> embed, pos |-> pos, total |-> total,
   buttons |-> buttons]

NoMessage == Message("", 0, 0, 0, FALSE)

(* ------------------------- external collaborators --------------------- *)

\* database::search_haikus: an ordered sequence of haiku ids; the store
\* decides how many.
ResultId(k) == IF k = 1 THEN 5 ELSE IF k = 2 THEN 9 ELSE 3 * k + 3

SearchResults(n) == [k \in 1..n |-> ResultId(k)]

\* str::split_whitespace().collect(): the words of a string.
RECURSIVE SplitFrom(_, _)
SplitFrom(s, word) ==
  IF s = <<>> THEN (IF word = <<>> THEN <<>> ELSE <<word>>)
  ELSE IF Head(s) = " "
       THEN (IF word = <<>> THEN <<>> ELSE <<word>>) \o SplitFrom(Tail(s), <<>>)
       ELSE SplitFrom(Tail(s), Append(word, Head(s)))

SplitWhitespace(s) == SplitFrom(s, <<>>)

(* ----------------------------- handlers ------------------------------- *)

\* create_interaction_response(...).await? with the error mapped to
\* InvocationError: a rejected message makes the handler return Err.
Respond_Propagates(i, msg, accepted) ==
  /\ sent' = [sent EXCEPT ![i] = Append(@, [msg |-> msg, accepted |-> accepted])]
  /\ display' = [display EXCEPT ![i] = IF accepted THEN msg ELSE @]
  /\ status' = [status EXCEPT ![i] = IF accepted THEN "returned" ELSE "failed"]

\* create_interaction_response(...).await.expect(...): the call is recorded;
\* an accepted message becomes the response, a rejected one panics the task.
Respond(i, msg, accepted) ==
  /\ sent' = [sent EXCEPT ![i] = Append(@, [msg |-> msg, accepted |-> accepted])]
  /\ display' = [display EXCEPT ![i] = IF accepted THEN msg ELSE @]
  /\ status' = [status EXCEPT ![i] = IF accepted THEN "returned" ELSE "panicked"]

\* A handler that says so when it has nothing to show.
ReturnSilently_Informs(i) ==
  Respond(i, Message("No haiku found.", 0, 0, 0, FALSE), TRUE)

\* A handler that returns Ok(()) without sending anything.
ReturnSilently(i) ==
  /\ status' = [status EXCEPT ![i] = "returned"]
  /\ UNCHANGED << sent, display >>

\* One arm of the match in Commands::invoke: the parsed command is handed
\* to the handler of its variant and is gone once the handler has read it.
Dispatch(i, variant, handler) ==
  /\ status[i] = "parsed"
  /\ cmd[i].val.variant = variant
  /\ ran' = [ran EXCEPT ![i] =
              Append(@, [variant |-> variant, handler |-> handler])]
  /\ cmd' = [cmd EXCEPT ![i] = NotParsed]

UptimeCommand_invoke(i) ==
  /\ Dispatch(i, "Uptime", "UptimeCommand")
  /\ \E accepted \in BOOLEAN :
       Respond(i, Message("Uptime", 0, 0, 0, FALSE), accepted)
  /\ UNCHANGED << harnessVars, guild, queries, pagerVars, arrivals, dropped, now >>

CountCommand_invoke(i) ==
  /\ Dispatch(i, "Count", "CountCommand")
  /\ \E counted \in BOOLEAN, accepted \in BOOLEAN :
       Respond(i,
               Message(IF counted THEN "The phrase has syllables"
                       ELSE "Could not count this phrase", 0, 0, 0, FALSE),
               accepted)
  /\ UNCHANGED << harnessVars, guild, queries, pagerVars, arrivals, dropped, now >>

\* A call of the store: its operation and how many haikus it returned.
Query(i, op, n) ==
  queries' = [queries EXCEPT ![i] = Append(@, [op |-> op, n |-> n])]

GetHaikuCommand_invoke(i) ==
  /\ Dispatch(i, "GetHaiku", "GetHaikuCommand")
  /\ \E found \in BOOLEAN, accepted \in BOOLEAN :
       IF ~guild[i]
       THEN ReturnSilently(i) /\ UNCHANGED queries
       ELSE /\ Query(i, "get_haiku", IF found THEN 1 ELSE 0)
            /\ IF found
               THEN Respond(i, Message("", cmd[i].val.id, 0, 0, FALSE), accepted)
               ELSE ReturnSilently(i)
  /\ UNCHANGED << harnessVars, guild, pagerVars, arrivals, dropped, now >>

RandomHaikuCommand_invoke(i) ==
  /\ Dispatch(i, "RandomHaiku", "RandomHaikuCommand")
  /\ \E found \in BOOLEAN, accepted \in BOOLEAN :
       IF ~guild[i]
       THEN ReturnSilently(i) /\ UNCHANGED queries
       ELSE /\ Query(i, "get_random_haiku", IF found THEN 1 ELSE 0)
            /\ IF found
               THEN Respond(i, Message("", ResultId(1), 0, 0, FALSE), accepted)
               ELSE ReturnSilently(i)
  /\ UNCHANGED << harnessVars, guild, pagerVars, arrivals, dropped, now >>

\* The no-results response built like a result page, action row included.
NoResultsMessage_WithButtons ==
  Message("No haikus found for search terms.", 0, 0, 0, TRUE)

\* Lines 414-421: the response to a search without results.
NoResultsMessage ==
  Message("No haikus found for search terms.", 0, 0, 0, FALSE)

\* Lines 428-461: embed of the item at idx, "Search result k/N", and the
\* action row with the Previous and the Next button.
SearchMessage(results, idx) ==
  Message("Search result", results[idx + 1], idx + 1, Len(results), TRUE)

\* The loop entered with a one-based index.
StartSession_FromOne(i, results) ==
  /\ session' = [session EXCEPT ![i] = "Active"]
  /\ items' = [items EXCEPT ![i] = results]
  /\ index' = [index EXCEPT ![i] = 1]
  /\ pc' = [pc EXCEPT ![i] = "await"]
  /\ wait' = [wait EXCEPT ![i] = 0]
  /\ createdAt' = [createdAt EXCEPT ![i] = now]
  /\ ideal' = [ideal EXCEPT ![i] = 1]
  /\ UNCHANGED << newIndex, queue >>

\* Lines 425-472 and 473-475: index = 0, and the loop entered at
\* await_reaction.
StartSession(i, results) ==
  /\ session' = [session EXCEPT ![i] = "Active"]
  /\ items' = [items EXCEPT ![i] = results]
  /\ index' = [index EXCEPT ![i] = 0]
  /\ pc' = [pc EXCEPT ![i] = "await"]
  /\ wait' = [wait EXCEPT ![i] = 0]
  /\ createdAt' = [createdAt EXCEPT ![i] = now]
  /\ ideal' = [ideal EXCEPT ![i] = 0]
  /\ UNCHANGED << newIndex, queue >>

\* search_results.is_empty() of line 413.
IsEmpty(results) == Len(results) = 0

SearchCommand_invoke(i) ==
  /\ Dispatch(i, "Search", "SearchCommand")
  /\ \E n \in 0..MaxResults, accepted \in BOOLEAN, reacted \in BOOLEAN :
       LET results == SearchResults(n)
       IN  IF ~guild[i]
           THEN ReturnSilently(i) /\ UNCHANGED << queries, pagerVars >>
           ELSE /\ Query(i, "search_haikus", Len(results))
                /\ IF IsEmpty(results)
                   THEN Respond(i, NoResultsMessage, accepted)
                        /\ UNCHANGED pagerVars
                   ELSE IF ~accepted
                   THEN Respond(i, SearchMessage(results, 0), FALSE)
                        /\ UNCHANGED pagerVars
                   ELSE /\ sent' = [sent EXCEPT ![i] =
                              Append(@, [msg |-> SearchMessage(results, 0),
                                         accepted |-> TRUE])]
                        /\ display' = [display EXCEPT ![i] =
                                         SearchMessage(results, 0)]
                        /\ IF reacted
                           THEN /\ status' = [status EXCEPT ![i] = "paging"]
                                /\ StartSession(i, results)
                           ELSE /\ status' = [status EXCEPT ![i] = "panicked"]
                                /\ UNCHANGED pagerVars
  /\ UNCHANGED << harnessVars, guild, arrivals, dropped, now >>

(* -------------------------- navigation loop --------------------------- *)

Some(v) == [some |-> TRUE, v |-> v]
None == [some |-> FALSE]

\* search_results.get(k): Some exactly for an index inside the vector.
Get(results, k) == IF k < Len(results) THEN Some(k) ELSE None

\* index - 1 without the check.
CheckedSub1_Unchecked(idx) == Some(idx - 1)

\* index.checked_sub(1): None at 0.
CheckedSub1(idx) == IF idx >= 1 THEN Some(idx - 1) ELSE None

\* The match of lines 480-493: the index the reaction asks for, if the
\* vector has an item there; None for any other emoji.
NavTarget(idx, emoji, results) ==
  CASE emoji = "next" -> Get(results, idx + 1)
    [] emoji = "prev" ->
         (IF CheckedSub1(idx).some THEN Get(results, CheckedSub1(idx).v)
          ELSE None)
    [] OTHER -> None

\* The cursor rule the pager is specified by: a step inside the range,
\* nothing at either end or for another emoji.
Move(c, emoji, n) ==
  IF emoji = "next" /\ c + 1 < n THEN c + 1
  ELSE IF emoji = "prev" /\ c > 0 THEN c - 1
  ELSE c

\* A collector that outlives its loop.
Collects_AfterExpiry(i) == session[i] \in { "Active", "Expired" }

\* The collector of await_reaction takes reactions while the loop runs.
Collects(i) == session[i] = "Active"

\* A reaction on a message whose loop is running joins its collector.
ReactionArrive(i, emoji) ==
  /\ arrivals + dropped < MaxArrivals
  /\ Collects(i)
  /\ queue' = [queue EXCEPT ![i] = Append(@, emoji)]
  /\ ideal' = [ideal EXCEPT ![i] = Move(@, emoji, Len(items[i]))]
  /\ arrivals' = arrivals + 1
  /\ UNCHANGED << harnessVars, status, cmd, guild, ran, sent, queries, display,
                  session, items, index, newIndex, pc, wait, createdAt,
                  dropped, now >>

\* A reaction on a message no loop is waiting on reaches no one.
ReactionDiscarded(i, emoji) ==
  /\ arrivals + dropped < MaxArrivals
  /\ display[i] # NoMessage
  /\ ~Collects(i)
  /\ dropped' = dropped + 1
  /\ UNCHANGED << harnessVars, status, cmd, guild, ran, sent, queries, display,
                  pagerVars, arrivals, now >>

\* A timeout that is not started again for the next await_reaction.
Rearm_Never(w, i) == w

\* One timer shared by every message's await_reaction.
Rearm_All(w, i) == [j \in DOMAIN w |-> 0]

\* Line 474-476: each pass of the loop calls await_reaction(ctx).timeout(...)
\* anew, on its own message: the wait of that loop starts again.
Rearm(w, i) == [w EXCEPT ![i] = 0]

\* Reactions handled as they come, the edit of an earlier one pending.
CanReceive_WhileBusy(i) == session[i] = "Active" /\ queue[i] # <<>>

\* The loop takes the next reaction only from await_reaction.
CanReceive(i) == session[i] = "Active" /\ pc[i] = "await" /\ queue[i] # <<>>

\* Lines 474-494: await_reaction returns the oldest reaction; a reaction
\* without a target falls through to the next await_reaction.
ReceiveReaction(i) ==
  /\ CanReceive(i)
  /\ LET target == NavTarget(index[i], Head(queue[i]), items[i])
     IN  /\ queue' = [queue EXCEPT ![i] = Tail(@)]
         /\ wait' = Rearm(wait, i)
         /\ IF target.some
            THEN /\ pc' = [pc EXCEPT ![i] = "busy"]
                 /\ newIndex' = [newIndex EXCEPT ![i] = target.v]
            ELSE UNCHANGED << pc, newIndex >>
  /\ UNCHANGED << harnessVars, status, cmd, guild, ran, sent, queries, display,
                  session, items, index, createdAt, ideal, arrivals, dropped, now >>

\* The task has left the loop: its locals are dropped.
LeaveLoop(i, how) ==
  /\ session' = [session EXCEPT ![i] = how]
  /\ items' = [items EXCEPT ![i] = <<>>]
  /\ queue' = [queue EXCEPT ![i] = <<>>]
  /\ pc' = [pc EXCEPT ![i] = "exit"]
  /\ wait' = [wait EXCEPT ![i] = 0]
  /\ newIndex' = [newIndex EXCEPT ![i] = 0]
  /\ ideal' = [ideal EXCEPT ![i] = 0]
  /\ UNCHANGED createdAt

\* The label written from the index itself, "Search result new_index/N".
Edited_ZeroBased(msg, results, idx) ==
  [msg EXCEPT !.embed = results[idx + 1], !.pos = idx,
              !.total = Len(results)]

\* msg.embed(...) and msg.content(...) of lines 497-505.
Edited(msg, results, idx) ==
  [msg EXCEPT !.embed = results[idx + 1], !.pos = idx + 1,
              !.total = Len(results)]

\* Lines 495-513: the edit, index = new_index, the reaction's removal; a
\* rejected edit or removal panics the task.
CompleteEdit(i) ==
  /\ session[i] = "Active"
  /\ pc[i] = "busy"
  /\ \E outcome \in { "ok", "edit_rejected", "delete_rejected" } :
       /\ display' = [display EXCEPT ![i] =
                        IF outcome = "edit_rejected" THEN @
                        ELSE Edited(@, items[i], newIndex[i])]
       /\ index' = [index EXCEPT ![i] =
                      IF outcome = "edit_rejected" THEN @ ELSE newIndex[i]]
       /\ IF outcome = "ok"
          THEN /\ pc' = [pc EXCEPT ![i] = "await"]
               /\ wait' = Rearm(wait, i)
               /\ UNCHANGED << status, session, items, queue, newIndex,
                               createdAt, ideal >>
          ELSE /\ status' = [status EXCEPT ![i] = "panicked"]
               /\ LeaveLoop(i, "Aborted")
  /\ UNCHANGED << harnessVars, cmd, guild, ran, sent, queries, arrivals, dropped, now >>

\* An await_reaction without timeout.
TimedOut_Never(i) == FALSE

\* The timeout of await_reaction has run out.
TimedOut(i) ==
  session[i] = "Active" /\ pc[i] = "await" /\ wait[i] >= TTL

\* Lines 515-521: await_reaction returned None; break, then Ok(()).
Timeout(i) ==
  /\ TimedOut(i)
  /\ queue[i] = <<>>
  /\ status' = [status EXCEPT ![i] = "returned"]
  /\ LeaveLoop(i, "Expired")
  /\ UNCHANGED << harnessVars, cmd, guild, ran, sent, queries, display, index,
                  arrivals, dropped, now >>

\* Time passes, but not past a timeout that is due.
Tick(d) ==
  /\ now + d <= MaxTime
  /\ \A i \in Interactions : ~TimedOut(i)
  /\ now' = now + d
  /\ wait' = [i \in Interactions |->
                IF session[i] = "Active" /\ pc[i] = "await"
                THEN (IF wait[i] + d >= TTL THEN TTL ELSE wait[i] + d)
                ELSE wait[i]]
  /\ UNCHANGED << harnessVars, status, cmd, guild, ran, sent, queries, display,
                  session, items, index, newIndex, pc, queue, createdAt, ideal,
                  arrivals, dropped >>

(* ---------------------------- dispatching ----------------------------- *)

\* An interaction arrives and Commands::parse classifies it.
Receive(i) ==
  /\ status[i] = "idle"
  /\ \E r \in RawInteractions(1) :
       /\ cmd' = [cmd EXCEPT ![i] = Commands_parse(r)]
       /\ guild' = [guild EXCEPT ![i] = r.guild]
       /\ status' = [status EXCEPT ![i] =
                       IF Commands_parse(r).ok THEN "parsed" ELSE "rejected"]
  /\ UNCHANGED << harnessVars, ran, sent, queries, display, pagerVars,
                  arrivals, dropped, now >>

\* Commands::invoke: the match on the variant.
Commands_invoke(i) ==
  \/ UptimeCommand_invoke(i)
  \/ CountCommand_invoke(i)
  \/ GetHaikuCommand_invoke(i)
  \/ RandomHaikuCommand_invoke(i)
  \/ SearchCommand_invoke(i)

(* --------------------------- specifications --------------------------- *)

Idle ==
  /\ status = [i \in Interactions |-> "idle"]
  /\ cmd = [i \in Interactions |-> NotParsed]
  /\ guild = [i \in Interactions |-> FALSE]
  /\ ran = [i \in Interactions |-> <<>>]
  /\ sent = [i \in Interactions |-> <<>>]
  /\ queries = [i \in Interactions |-> <<>>]
  /\ display = [i \in Interactions |-> NoMessage]
  /\ session = [i \in Interactions |-> "NoSession"]
  /\ items = [i \in Interactions |-> <<>>]
  /\ index = [i \in Interactions |-> 0]
  /\ newIndex = [i \in Interactions |-> 0]
  /\ pc = [i \in Interactions |-> "exit"]
  /\ queue = [i \in Interactions |-> <<>>]
  /\ wait = [i \in Interactions |-> 0]
  /\ createdAt = [i \in Interactions |-> 0]
  /\ ideal = [i \in Interactions |-> 0]
  /\ arrivals = 0
  /\ dropped = 0
  /\ now = 0

\* Nothing registered by this process yet, and users free to react.
Fresh ==
  /\ registered = << >>
  /\ regCalls = 0
  /\ quiet = FALSE

Init ==
  /\ raw = NoRaw
  /\ result = NotParsed
  /\ Fresh
  /\ Idle

Next ==
  \/ \E i \in Interactions : Receive(i)
  \/ \E i \in Interactions : Commands_invoke(i)
  \/ \E i \in Interactions, e \in Emoji : ReactionArrive(i, e)
  \/ \E i \in Interactions, e \in Emoji : ReactionDiscarded(i, e)
  \/ \E i \in Interactions : ReceiveReaction(i)
  \/ \E i \in Interactions : CompleteEdit(i)
  \/ \E i \in Interactions : Timeout(i)
  \/ \E d \in Durations : Tick(d)

Spec == Init /\ [][Next]_vars

\* The parser alone: any raw interaction, parsed once.
InitParse ==
  /\ raw \in RawInteractions(MaxOptions)
  /\ result = NotParsed
  /\ Fresh
  /\ Idle

ParseStep ==
  /\ result = NotParsed
  /\ result' = Commands_parse(raw)
  /\ UNCHANGED << raw, registered, regCalls, quiet, status, cmd, guild, ran,
                  sent, queries, display, pagerVars, arrivals, dropped, now >>

NextParse == ParseStep

SpecParse == InitParse /\ [][NextParse]_vars

(* ------------------------- registered schemas ------------------------- *)

\* The options each register() declares, all of them required(true):
\* uptime and randomhaiku declare none.
RequiredOptions(name) ==
  CASE name = COUNT_COMMAND_NAME -> { [name |-> "phrase", kind |-> "String"] }
    [] name = GET_HAIKU_COMMAND_NAME -> { [name |-> "id", kind |-> "Integer"] }
    [] name = SEARCH_COMMAND_NAME ->
         { [name |-> "keywords", kind |-> "String"] }
    [] OTHER -> {}

\* The variant of Commands that wraps the command of this name.
VariantOf(name) ==
  CASE name = UPTIME_COMMAND_NAME -> "Uptime"
    [] name = COUNT_COMMAND_NAME -> "Count"
    [] name = GET_HAIKU_COMMAND_NAME -> "GetHaiku"
    [] name = RANDOM_HAIKU_COMMAND_NAME -> "RandomHaiku"
    [] name = SEARCH_COMMAND_NAME -> "Search"
    [] OTHER -> "None"

(* ---------------------------- registration ---------------------------- *)

MaxPrior == 2
MaxRegistrations == 2

\* CreateApplicationCommand as Command::register fills it in: the name and
\* the declared options.
Register(name) == [name |-> name, options |-> RequiredOptions(name)]

\* Lines 73-78: the five create_application_command calls of the builder.
CommandsBuilder ==
  << Register(UPTIME_COMMAND_NAME), Register(COUNT_COMMAND_NAME),
     Register(GET_HAIKU_COMMAND_NAME), Register(RANDOM_HAIKU_COMMAND_NAME),
     Register(SEARCH_COMMAND_NAME) >>

\* Each command created on top of what the guild already has.
SetApplicationCommands_Create(table, commands) == table \o commands

\* Line 72, GuildId::set_application_commands: the guild's commands become
\* the commands of the builder, whatever the guild had before.
SetApplicationCommands(table, commands) == commands

\* What a guild may hold from earlier deployments: commands of any name,
\* with the options of today or with others.
StaleOptions(name) ==
  { {}, { [name |-> "text", kind |-> "String"] }, RequiredOptions(name) }

StaleCommands ==
  UNION { { [name |-> n, options |-> o] : o \in StaleOptions(n) } :
            n \in CommandNames }

PriorTables == UNION { [1..k -> StaleCommands] : k \in 0..MaxPrior }

\* Lines 66-81: register_commands. A call the platform rejects returns Err
\* and leaves the guild's commands as they were.
RegisterCommands ==
  /\ regCalls < MaxRegistrations
  /\ \E accepted \in BOOLEAN :
       IF accepted
       THEN /\ registered' = SetApplicationCommands(registered, CommandsBuilder)
            /\ regCalls' = regCalls + 1
       ELSE UNCHANGED << registered, regCalls >>
  /\ UNCHANGED << raw, result, quiet, status, cmd, guild, ran, sent, queries,
                  display, pagerVars, arrivals, dropped, now >>

InitRegister ==
  /\ raw = NoRaw
  /\ result = NotParsed
  /\ registered \in PriorTables
  /\ regCalls = 0
  /\ quiet = FALSE
  /\ Idle

NextRegister == RegisterCommands

SpecRegister == InitRegister /\ [][NextRegister]_vars

(* ----------------------- the loop under fairness ---------------------- *)

\* One search and its loop, followed without a bound on time or reactions.
LiveInteractions == { 1 }

\* Users react for as long as they like; the collector holds what the loop
\* has not taken yet.
ReactionArriveAnyTime(i, emoji) ==
  /\ ~quiet
  /\ Collects(i)
  /\ Len(queue[i]) < MaxArrivals
  /\ queue' = [queue EXCEPT ![i] = Append(@, emoji)]
  /\ ideal' = [ideal EXCEPT ![i] = Move(@, emoji, Len(items[i]))]
  /\ UNCHANGED << raw, result, registered, regCalls, quiet, status, cmd, guild,
                  ran, sent, queries, display, session, items, index, newIndex,
                  pc, wait, createdAt, arrivals, dropped, now >>

\* Then they stop, for good.
UsersLeave ==
  /\ ~quiet
  /\ quiet' = TRUE
  /\ UNCHANGED << raw, result, registered, regCalls, status, cmd, guild, ran,
                  sent, queries, display, pagerVars, arrivals, dropped, now >>

\* Time passes without end, though not past a timeout that is due; the
\* clock is read up to MaxTime only.
TickOn(d) ==
  /\ \A i \in Interactions : ~TimedOut(i)
  /\ now' = IF now + d <= MaxTime THEN now + d ELSE MaxTime
  /\ wait' = [i \in Interactions |->
                IF session[i] = "Active" /\ pc[i] = "await"
                THEN (IF wait[i] + d >= TTL THEN TTL ELSE wait[i] + d)
                ELSE wait[i]]
  /\ UNCHANGED << harnessVars, status, cmd, guild, ran, sent, queries, display,
                  session, items, index, newIndex, pc, queue, createdAt, ideal,
                  arrivals, dropped >>

NextLive ==
  \/ \E i \in LiveInteractions : Receive(i)
  \/ \E i \in LiveInteractions : Commands_invoke(i)
  \/ \E i \in LiveInteractions, e \in Emoji : ReactionArriveAnyTime(i, e)
  \/ UsersLeave
  \/ \E i \in LiveInteractions : ReceiveReaction(i)
  \/ \E i \in LiveInteractions : CompleteEdit(i)
  \/ \E i \in LiveInteractions : Timeout(i)
  \/ \E d \in Durations : TickOn(d)

\* Time advances, and the runtime runs a task that can go on: the loop
\* takes a collected reaction, finishes an edit it began, and returns from
\* a wait that timed out. Nothing obliges users to react or to stop.
Fairness ==
  /\ \A d \in Durations : WF_vars(TickOn(d))
  /\ \A i \in LiveInteractions :
       /\ WF_vars(ReceiveReaction(i))
       /\ WF_vars(CompleteEdit(i))
       /\ WF_vars(Timeout(i))

SpecLive == Init /\ [][NextLive]_vars /\ Fairness

(* ------------------------------ claims -------------------------------- *)

\* The resolved values the interaction carries under an option name.
ValuesOf(r, name) ==
  { r.options[k].resolved :
      k \in { j \in 1..Len(r.options) : r.options[j].name = name } }

\* The interaction names a known command and carries each required option,
\* every time with a value of the declared type.
WellFormed(r) ==
  /\ r.name \in KnownCommands
  /\ \A p \in RequiredOptions(r.name) :
       /\ ValuesOf(r, p.name) # {}
       /\ \A v \in ValuesOf(r, p.name) : v.kind = p.kind

\* The interaction names a known command and carries no option of the name
\* of a required one.
LacksOption(r) ==
  /\ r.name \in KnownCommands
  /\ \E p \in RequiredOptions(r.name) : ValuesOf(r, p.name) = {}

\* The interaction names a known command and carries a required option,
\* every time with a value of another type than the declared one.
WronglyTyped(r) ==
  /\ r.name \in KnownCommands
  /\ \E p \in RequiredOptions(r.name) :
       /\ ValuesOf(r, p.name) # {}
       /\ \A v \in ValuesOf(r, p.name) : v.kind \notin { p.kind, "None" }

Parsed == result # NotParsed

\* C1: for a well-formed interaction of a known command, with every
\* required option present and of the declared type, parse returns the
\* ParsedCommand variant of that command, never a ParseError.
C1_ParseAcceptsWellFormed ==
  (Parsed /\ WellFormed(raw)) =>
    (result.ok /\ result.val.variant = VariantOf(raw.name))

\* C1 witness: a gethaiku interaction with two options, one the Integer id,
\* has been parsed into the GetHaiku variant.
C1_Witness ==
  /\ Parsed
  /\ WellFormed(raw)
  /\ raw.name = GET_HAIKU_COMMAND_NAME
  /\ Len(raw.options) = 2
  /\ result = Ok([variant |-> "GetHaiku", id |-> 7])

\* C2: a missing required option gives MissingOption, a required option of
\* the wrong type gives InvalidOption, an unknown command name gives
\* UnknownCommand; none of the three gives a ParsedCommand.
C2_ParseClassifiesErrors ==
  Parsed =>
    /\ LacksOption(raw) => result = Err("MissingOption")
    /\ WronglyTyped(raw) => result = Err("InvalidOption")
    /\ raw.name \notin KnownCommands => result = Err("UnknownCommand")

\* C2 witness: a search interaction whose keywords option holds an Integer
\* has been rejected as InvalidOption.
C2_Witness ==
  /\ Parsed
  /\ raw.name = SEARCH_COMMAND_NAME
  /\ WronglyTyped(raw)
  /\ IntegerValue(7) \in ValuesOf(raw, "keywords")
  /\ result = Err("InvalidOption")

\* The handler Commands::invoke calls for a variant.
HandlerOf(variant) ==
  CASE variant = "Uptime" -> "UptimeCommand"
    [] variant = "Count" -> "CountCommand"
    [] variant = "GetHaiku" -> "GetHaikuCommand"
    [] variant = "RandomHaiku" -> "RandomHaikuCommand"
    [] variant = "Search" -> "SearchCommand"

\* The responses the platform accepted for an interaction.
Accepted(i) == { k \in 1..Len(sent[i]) : sent[i][k].accepted }

\* The handler of interaction i got through its first response.
Answered(i) == status[i] \in { "returned", "paging" }

\* C3: a dispatched command runs the one handler of its variant, and on
\* every path of that handler exactly one initial response is sent for the
\* interaction, never a second one.
C3_ExactlyOneInitialResponse ==
  \A i \in Interactions :
    /\ Len(sent[i]) <= 1
    /\ Answered(i) =>
         /\ Len(ran[i]) = 1
         /\ ran[i][1].handler = HandlerOf(ran[i][1].variant)
         /\ Cardinality(Accepted(i)) = 1

\* The loop of session i takes the reaction at the head of its queue.
Receives(i) == CanReceive(i) /\ queue'[i] = Tail(queue[i])

\* The edit of session i is accepted and the loop awaits again.
Commits(i) == session[i] = "Active" /\ pc[i] = "busy" /\ pc'[i] = "await"

RECURSIVE ApplyAll(_, _, _)
ApplyAll(c, q, n) ==
  IF q = <<>> THEN c ELSE ApplyAll(Move(c, Head(q), n), Tail(q), n)

Searched(i, n) ==
  \E k \in 1..Len(queries[i]) :
    queries[i][k].op = "search_haikus" /\ queries[i][k].n = n

\* C8: a search with zero results creates no session, and what is sent is
\* the fixed "no results" text, without embed and without action row.
C8_NoResults ==
  \A i \in Interactions :
    Searched(i, 0) =>
      /\ session[i] = "NoSession"
      /\ Len(sent[i]) = 1
      /\ sent[i][1].msg.text = "No haikus found for search terms."
      /\ sent[i][1].msg.embed = 0
      /\ sent[i][1].msg.buttons = FALSE
      /\ status[i] = "returned" => display[i] = sent[i][1].msg

\* C8 witness: a search without results has been answered.
C8_Witness ==
  \E i \in Interactions : Searched(i, 0) /\ status[i] = "returned"

\* C9: a search with exactly one result creates no session and its
\* response has no navigation controls; only a search with two or more
\* results gets the Previous/Next row.
C9_SingleResult ==
  \A i \in Interactions :
    /\ Searched(i, 1) =>
         /\ session[i] = "NoSession"
         /\ \A k \in 1..Len(sent[i]) : ~sent[i][k].msg.buttons
    /\ \A k \in 1..Len(sent[i]) :
         sent[i][k].msg.buttons => \E n \in 2..MaxResults : Searched(i, n)

\* The platform rejected a response of interaction i.
Rejected(i) == \E k \in 1..Len(sent[i]) : ~sent[i][k].accepted

\* C10: when the platform rejects a handler's response, the dispatch
\* returns InvocationError; the task does not panic and does not send
\* again.
C10_RejectionIsReturned ==
  \A i \in Interactions :
    Rejected(i) => (status[i] = "failed" /\ Len(sent[i]) = 1)

EditRejected(i) ==
  /\ session[i] = "Active"
  /\ pc[i] = "busy"
  /\ pc'[i] # "busy"
  /\ display'[i] = display[i]

Fetched(i, n) ==
  \E k \in 1..Len(queries[i]) :
    queries[i][k].op = "get_haiku" /\ queries[i][k].n = n

\* C13 as stated: gethaiku answers whether or not the store has the haiku,
\* with a response without embed when it has none and with the one embed
\* when it has it, and in neither case is there a session.
C13_FetchAlwaysAnswers ==
  \A i \in Interactions :
    /\ Fetched(i, 0) =>
         /\ Len(sent[i]) = 1
         /\ sent[i][1].msg.embed = 0
         /\ session[i] = "NoSession"
    /\ Fetched(i, 1) =>
         /\ Len(sent[i]) = 1
         /\ sent[i][1].msg.embed # 0
         /\ session[i] = "NoSession"

\* C14 as stated: a Search command that parse constructs carries at least
\* one keyword; parse never succeeds on keywords that are empty or only
\* whitespace, whose split_whitespace() is the empty sequence.
C14_KeywordsNonEmpty ==
  (Parsed /\ result.ok /\ result.val.variant = "Search") =>
    SplitWhitespace(result.val.keywords) # << >>

EntriesOf(table, name) == { k \in 1..Len(table) : table[k].name = name }

\* C16: registration is idempotent by name. A name that is registered again
\* replaces the schema the guild had under it and never adds a second
\* entry, and registering the same commands a second time leaves the
\* guild's commands as the first registration left them.
C16_RegistrationIdempotent ==
  [][ regCalls' = regCalls + 1 =>
        /\ \A name \in KnownCommands :
             /\ Cardinality(EntriesOf(registered', name)) = 1
             /\ \A k \in EntriesOf(registered', name) :
                  registered'[k] = Register(name)
        /\ regCalls >= 1 => registered' = registered ]_vars

\* Registered twice, over a guild that already had a gethaiku command.
C16_Witness ==
  /\ regCalls = 2
  /\ Len(registered) = 5
  /\ EntriesOf(registered, GET_HAIKU_COMMAND_NAME) = { 3 }

\* The loop of session a handles a navigation action: it receives it, or
\* it finishes the edit the action called for.
NavStep(a) ==
  \/ Receives(a)
  \/ session[a] = "Active" /\ pc[a] = "busy" /\ pc'[a] # "busy"

\* No session but a changes in the step.
OthersUntouched(a) ==
  \A j \in Interactions \ { a } :
    /\ session'[j] = session[j]
    /\ items'[j] = items[j]
    /\ index'[j] = index[j]
    /\ display'[j] = display[j]
    /\ wait'[j] = wait[j]
    /\ createdAt'[j] = createdAt[j]
    /\ queue'[j] = queue[j]
    /\ status'[j] = status[j]

\* The instant at which session i expires if no further reaction comes.
Deadline(i) == now + TTL - wait[i]

Dispatches(i) == status[i] = "parsed" /\ status'[i] # "parsed"

Serverless(i) ==
  /\ ~guild[i]
  /\ ran[i] # << >>
  /\ ran[i][1].variant \in { "GetHaiku", "RandomHaiku", "Search" }

\* C20: without a server id, gethaiku, randomhaiku and search do not query
\* the store, send no response, create no session, and return Ok(()).
C20_NoServerNoEffect ==
  \A i \in Interactions :
    Serverless(i) =>
      /\ queries[i] = << >>
      /\ sent[i] = << >>
      /\ display[i] = NoMessage
      /\ session[i] = "NoSession"
      /\ status[i] = "returned"

\* A search from a direct message has returned, beside a search in a guild
\* that was answered.
C20_Witness ==
  \E i, j \in Interactions :
    /\ Serverless(i)
    /\ ran[i][1].variant = "Search"
    /\ status[i] = "returned"
    /\ guild[j] /\ Searched(j, 2) /\ Len(sent[j]) = 1

\* The interaction with no option but its k-th.
OnlyOption(r, k) == [r EXCEPT !.options = << r.options[k] >>]

\* C21: count, gethaiku and search decide on the first option that has the
\* name of the required parameter. Without such an option, or when it
\* carries no resolved value, the result is MissingOption; and the result
\* is what that one option alone gives, whatever other options come with
\* it. uptime and randomhaiku parse whatever options they carry.
C21_FirstOptionDecides ==
  Parsed =>
    /\ raw.name \in { UPTIME_COMMAND_NAME, RANDOM_HAIKU_COMMAND_NAME } =>
         result = Ok([variant |-> VariantOf(raw.name)])
    /\ \A p \in RequiredOptions(raw.name) :
         LET named == { k \in 1..Len(raw.options) :
                          raw.options[k].name = p.name }
         IN  /\ named = {} => result = Err("MissingOption")
             /\ \A k \in named :
                  (\A j \in named : k <= j) =>
                    /\ raw.options[k].resolved = NoneValue =>
                         result = Err("MissingOption")
                    /\ result = Commands_parse(OnlyOption(raw, k))

\* count with two phrase options, the first without a value, the second a
\* proper string: MissingOption.
C21_Witness ==
  /\ Parsed
  /\ raw.name = COUNT_COMMAND_NAME
  /\ Len(raw.options) = 2
  /\ raw.options[1] = [name |-> "phrase", resolved |-> NoneValue]
  /\ raw.options[2] = [name |-> "phrase", resolved |-> StringValue(<< "m" >>)]
  /\ result = Err("MissingOption")

\* C22: Commands::invoke, whenever it returns, returns Ok(()). A handler
\* that ran has returned Ok(()), is still in its loop, or has panicked; none
\* has returned Err(InvocationError), whatever the store gave and whether
\* or not a response was sent.
C22_InvokeNeverReturnsErr ==
  \A i \in Interactions :
    /\ status[i] # "failed"
    /\ ran[i] # << >> => status[i] \in { "returned", "paging", "panicked" }

\* One handler returned Ok(()) from a store that had nothing, without a
\* response; another was refused its response and panicked.
C22_Witness ==
  \E i, j \in Interactions :
    /\ status[i] = "returned" /\ queries[i] # << >> /\ sent[i] = << >>
    /\ status[j] = "panicked" /\ Rejected(j)

====
